---- MODULE Spec2Model ----
(***************************************************************************)
(* A model of go-accessor-gen: the package cache (init.go, loadPackages),  *)
(* the type expression renderer (exprToString), the primitive-pointer      *)
(* classifier (isPrimitivePointer), the two example-value synthesizers     *)
(* (exprToTestDefaultValue, exprToTestDefaultValue2), the field model      *)
(* assembler (collectTmplData, processFile) and the generation mode        *)
(* toggles (option.go).                                                    *)
(*                                                                         *)
(* Go strings are TLA+ strings; a Go map is a function whose DOMAIN is the *)
(* set of keys present; a pointer is the identity (id) of the allocation.  *)
(***************************************************************************)
EXTENDS Integers, Sequences, FiniteSets, TLC

VARIABLES
    packageCache,   \* init.go:20       map[string]*loadPackagesResponse
    analyses,       \* per path: how many times packages.Load ran (instrumentation)
    failures,       \* per path: how many of those runs returned an error
    nextId,         \* identity of the next *loadPackagesResponse allocated
    panicked,       \* the process died of a nil pointer dereference
    call,           \* the call in progress: its operation, inputs and results
    options,        \* option.go:75    the *Options that FuncOptions.New builds
    fs,             \* option.go:80    the FuncOptions still to be applied
    last,           \* the FuncOption applied last, the mode it found, all applied
    field,          \* part_001:74     the field entry collectTmplData is at
    callers,        \* part_001:17     the goroutines inside loadPackages
    unit,           \* README.md:470   the file processFile is given, and its results
    run             \* README.md:413   a run of process: its position, the disk, its log

cacheVars == <<packageCache, analyses, failures, nextId, panicked>>
optVars == <<options, fs, last>>
vars ==
    <<packageCache, analyses, failures, nextId, panicked, call, options, fs, last,
      field, callers, unit, run>>

(***************************************************************************)
(* Bounds of the model.                                                    *)
(***************************************************************************)
\* packages.Load runs at most this often per path (failed loads are re-run).
MaxAnalyses == 3
\* FuncOptions.New is given at most this many options.
MaxOptions == 3
\* Nested field types have at most this many nodes.
MaxNodes == 4
\* A file has at most this many top-level declarations.
MaxDecls == 2
\* The tool is run at most this many times over the same tree.
MaxRuns == 2

\* Absolute directory paths handed to loadPackages.
Paths == {"/a", "/b"}

(***************************************************************************)
(* go/ast type expressions.                                                *)
(***************************************************************************)
Ident(n) == [kind |-> "Ident", Name |-> n]
StarExpr(x) == [kind |-> "StarExpr", X |-> x]
\* Len is "" for a slice []T and the length expression for an array [N]T.
ArrayType(len, elt) == [kind |-> "ArrayType", Len |-> len, Elt |-> elt]
MapType(k, v) == [kind |-> "MapType", Key |-> k, Value |-> v]
SelectorExpr(x, sel) == [kind |-> "SelectorExpr", X |-> x, Sel |-> sel]
IndexExpr(x, index) == [kind |-> "IndexExpr", X |-> x, Index |-> index]
IndexListExpr(x, indices) == [kind |-> "IndexListExpr", X |-> x, Indices |-> indices]
\* Any other ast.Expr (func, chan, interface, anonymous struct type, ...).
OtherExpr(k) == [kind |-> k]

(***************************************************************************)
(* strings.Join(elems, sep)                                                *)
(***************************************************************************)
RECURSIVE Join(_, _)
Join(elems, sep) ==
    IF Len(elems) = 0 THEN ""
    ELSE IF Len(elems) = 1 THEN elems[1]
    ELSE elems[1] \o sep \o Join(Tail(elems), sep)

(***************************************************************************)
(* exprToString: the rendered text of a type expression.                   *)
(***************************************************************************)
RECURSIVE exprToString(_)
\* exprToString with a default case that renders the empty interface.
exprToStringDefaultAny(expr) ==
    CASE expr.kind = "Ident" -> expr.Name
      [] expr.kind = "StarExpr" -> "*" \o exprToString(expr.X)
      [] expr.kind = "SelectorExpr" -> exprToString(expr.X) \o "." \o expr.Sel
      [] expr.kind = "ArrayType" -> "[]" \o exprToString(expr.Elt)
      [] expr.kind = "MapType" ->
            "map[" \o exprToString(expr.Key) \o "]" \o exprToString(expr.Value)
      [] expr.kind = "IndexExpr" ->
            exprToString(expr.X) \o "[" \o exprToString(expr.Index) \o "]"
      [] expr.kind = "IndexListExpr" ->
            exprToString(expr.X) \o "["
                \o Join([i \in 1..Len(expr.Indices) |-> exprToString(expr.Indices[i])], ", ")
                \o "]"
      [] OTHER -> "interface{}"

exprToString(expr) ==
    CASE expr.kind = "Ident" -> expr.Name
      [] expr.kind = "StarExpr" -> "*" \o exprToString(expr.X)
      [] expr.kind = "SelectorExpr" -> exprToString(expr.X) \o "." \o expr.Sel
      [] expr.kind = "ArrayType" -> "[]" \o exprToString(expr.Elt)
      [] expr.kind = "MapType" ->
            "map[" \o exprToString(expr.Key) \o "]" \o exprToString(expr.Value)
      [] expr.kind = "IndexExpr" ->
            exprToString(expr.X) \o "[" \o exprToString(expr.Index) \o "]"
      [] expr.kind = "IndexListExpr" ->
            exprToString(expr.X) \o "["
                \o Join([i \in 1..Len(expr.Indices) |-> exprToString(expr.Indices[i])], ", ")
                \o "]"
      [] OTHER -> ""

(***************************************************************************)
(* go/types: the types go/types records for type expressions.              *)
(***************************************************************************)
NilType == [kind |-> "nil"]                 \* TypeOf found nothing
Basic(n) == [kind |-> "Basic", name |-> n]  \* *types.Basic; Name() is n
Named(n, u) == [kind |-> "Named", name |-> n, underlying |-> u]
Composite(k) == [kind |-> k]                \* Pointer, Slice, Map, Struct, ...

\* types.Type.Underlying()
Underlying(typ) == IF typ.kind = "Named" THEN typ.underlying ELSE typ

\* typ.Underlying().(*types.Basic)
IsBasic(typ) == Underlying(typ).kind = "Basic"

\* The kind of type go/types records for a composite type expression.
CompositeKind(expr) ==
    CASE expr.kind = "StarExpr" -> "Pointer"
      [] expr.kind = "ArrayType" -> IF expr.Len = "" THEN "Slice" ELSE "Array"
      [] expr.kind = "MapType" -> "Map"
      [] expr.kind = "FuncType" -> "Signature"
      [] expr.kind = "ChanType" -> "Chan"
      [] expr.kind = "InterfaceType" -> "Interface"
      [] OTHER -> "Struct"

\* pkg.TypesInfo.TypeOf(expr): names resolve through the package's table, a
\* composite expression has the composite type of its shape; a package that
\* recorded nothing for the file (an empty table) answers nil throughout.
TypeOf(pkg, expr) ==
    IF expr \in DOMAIN pkg.TypesInfo THEN pkg.TypesInfo[expr]
    ELSE IF expr.kind \in {"Ident", "SelectorExpr", "IndexExpr", "IndexListExpr"}
            \/ DOMAIN pkg.TypesInfo = {}
         THEN NilType
         ELSE Composite(CompositeKind(expr))

(***************************************************************************)
(* The analysed directories: what packages.Load can answer.                *)
(***************************************************************************)
\* The predeclared scalar type names; byte and rune are *types.Basic of
\* their own, named "byte" and "rune".
IntNames ==
    {"int", "int8", "int16", "int32", "int64",
     "uint", "uint8", "uint16", "uint32", "uint64"}
FloatNames == {"float32", "float64"}
ScalarNames == {"string", "bool", "byte", "rune"} \cup IntNames \cup FloatNames

UniverseInfo == [e \in {Ident(n) : n \in ScalarNames} |-> Basic(e.Name)]

\* A package declaring named types over scalars (MyInt, MyStr, MyBool,
\* MyFloat, MyByte, MyRune), a struct (Rec) and a generic struct (Box), using
\* time.Duration, and holding an undeclared name (Undef: go/types records
\* the invalid type, a *types.Basic). Ghost has no recorded type.
PkgMain ==
    [Name |-> "main",
     TypesInfo |->
        UniverseInfo
        @@ (Ident("MyInt") :> Named("MyInt", Basic("int")))
        @@ (Ident("MyStr") :> Named("MyStr", Basic("string")))
        @@ (Ident("MyBool") :> Named("MyBool", Basic("bool")))
        @@ (Ident("MyFloat") :> Named("MyFloat", Basic("float64")))
        @@ (Ident("MyByte") :> Named("MyByte", Basic("byte")))
        @@ (Ident("MyRune") :> Named("MyRune", Basic("rune")))
        @@ (Ident("Rec") :> Named("Rec", Composite("Struct")))
        @@ (Ident("Undef") :> Basic("invalid type"))
        @@ (SelectorExpr(Ident("time"), "Duration") :> Named("Duration", Basic("int64")))
        @@ (SelectorExpr(Ident("time"), "Time") :> Named("Time", Composite("Struct")))
        @@ (IndexExpr(Ident("Box"), Ident("int")) :> Named("Box", Composite("Struct")))]

\* A second package of the same load that resolves some names differently
\* (MyInt is a struct here, Rec an int) and has nothing for MyStr.
PkgAlt ==
    [Name |-> "alt",
     TypesInfo |->
        UniverseInfo
        @@ (Ident("MyInt") :> Named("MyInt", Composite("Struct")))
        @@ (Ident("Rec") :> Named("Rec", Basic("int")))
        @@ (Ident("MyBool") :> Named("MyBool", Basic("bool")))]

\* A package that recorded no type for any expression of the file.
PkgEmpty == [Name |-> "empty", TypesInfo |-> <<>>]

\* The answers of one packages.Load run: an error, or the loaded packages.
LoadError == [err |-> TRUE, packages |-> <<>>]
Loaded(pkgs) == [err |-> FALSE, packages |-> pkgs]
Outcomes ==
    {LoadError, Loaded(<<>>), Loaded(<<PkgMain>>), Loaded(<<PkgAlt, PkgMain>>),
     Loaded(<<PkgMain, PkgAlt>>), Loaded(<<PkgEmpty, PkgMain>>)}

(***************************************************************************)
(* The package cache and loadPackages.  Operations that touch the cache    *)
(* take the process state st and return it updated:                        *)
(*   st = [cache, analyses, failures, nextId, panicked].                   *)
(***************************************************************************)
\* A nil *loadPackagesResponse.
NilResp == [id |-> 0, packages |-> <<>>]

\* m[k] = v on a Go map.
MapStore(m, k, v) == [x \in DOMAIN m \cup {k} |-> IF x = k THEN v ELSE m[x]]

\* The lines of loadPackages after the cache lookup, storing the nil result
\* of a failed packages.Load under dirPath before returning the error.
loadAndStoreFailure(dirPath, st, o) ==
    IF o.err
    THEN [resp |-> NilResp, err |-> TRUE,
          st |-> [st EXCEPT !.analyses[dirPath] = @ + 1,
                            !.failures[dirPath] = @ + 1,
                            !.cache = MapStore(@, dirPath, NilResp)]]
    ELSE [resp |-> [id |-> st.nextId, packages |-> o.packages], err |-> FALSE,
          st |-> [st EXCEPT !.analyses[dirPath] = @ + 1,
                            !.cache = MapStore(@, dirPath,
                                               [id |-> st.nextId,
                                                packages |-> o.packages]),
                            !.nextId = @ + 1]]

\* The lines of loadPackages after the cache lookup: packages.Load runs and
\* answers o; an error is returned, a result is allocated, stored, returned.
loadAndStore(dirPath, st, o) ==
    IF o.err
    THEN [resp |-> NilResp, err |-> TRUE,
          st |-> [st EXCEPT !.analyses[dirPath] = @ + 1,
                            !.failures[dirPath] = @ + 1]]
    ELSE [resp |-> [id |-> st.nextId, packages |-> o.packages], err |-> FALSE,
          st |-> [st EXCEPT !.analyses[dirPath] = @ + 1,
                            !.cache = MapStore(@, dirPath,
                                               [id |-> st.nextId,
                                                packages |-> o.packages]),
                            !.nextId = @ + 1]]

\* loadPackages without the cache lookup of its first lines.
loadPackagesNoLookup(dirPath, st, o) == loadAndStore(dirPath, st, o)

\* loadPackages(dirPath): o is what packages.Load answers if it is run now.
loadPackages(dirPath, st, o) ==
    IF dirPath \in DOMAIN st.cache
    THEN [resp |-> st.cache[dirPath], err |-> FALSE, st |-> st]
    ELSE loadAndStore(dirPath, st, o)

(***************************************************************************)
(* isPrimitivePointer                                                      *)
(***************************************************************************)
\* typ of one package in the loop of isPrimitivePointer: nil is skipped
\* (continue), a basic underlying type answers true.
hasBasic(typ) == typ # NilType /\ IsBasic(typ)

\* The loop over pkgs deciding at the first package that has a type.
RECURSIVE firstTypeBasicFrom(_, _, _)
firstTypeBasicFrom(pkgs, x, i) ==
    IF i > Len(pkgs) THEN FALSE
    ELSE IF TypeOf(pkgs[i], x) # NilType THEN IsBasic(TypeOf(pkgs[i], x))
    ELSE firstTypeBasicFrom(pkgs, x, i + 1)

\* The loop over pkgs, from package i on.
RECURSIVE anyBasicFrom(_, _, _)
anyBasicFrom(pkgs, x, i) ==
    IF i > Len(pkgs) THEN FALSE
    ELSE IF hasBasic(TypeOf(pkgs[i], x)) THEN TRUE
    ELSE anyBasicFrom(pkgs, x, i + 1)

\* isPrimitivePointer after its loadPackages call answered r: resp.packages
\* on the nil resp of a failed load is a nil pointer dereference.
classifyPointee(fieldType, r) ==
    IF r.err THEN [val |-> FALSE, st |-> [r.st EXCEPT !.panicked = TRUE]]
    ELSE [val |-> anyBasicFrom(r.resp.packages, fieldType.X, 1), st |-> r.st]

isPrimitivePointer(fieldType, dirPath, st, o) ==
    IF fieldType.kind # "StarExpr" THEN [val |-> FALSE, st |-> st]
    ELSE classifyPointee(fieldType, loadPackages(dirPath, st, o))

(***************************************************************************)
(* exprToTestDefaultValue and exprToTestDefaultValue2: the two example     *)
(* values of a field type.                                                 *)
(***************************************************************************)
\* The names of the first switch on t.Name (rune is not among them).
InNameSwitch(name) == name \in {"string", "bool", "byte"} \cup IntNames \cup FloatNames

\* The first switch on t.Name of exprToTestDefaultValue.
scalarLiteral(name) ==
    CASE name = "string" -> "\"str\""
      [] name \in IntNames -> name \o "(1)"
      [] name \in FloatNames -> name \o "(1.0)"
      [] name = "bool" -> "true"
      [] name = "byte" -> "uint8(1)"

\* The first switch on t.Name of exprToTestDefaultValue2.
scalarLiteral2(name) ==
    CASE name = "string" -> "\"str2\""
      [] name \in IntNames -> name \o "(2)"
      [] name \in FloatNames -> name \o "(2.0)"
      [] name = "bool" -> "true"
      [] name = "byte" -> "uint8(2)"

\* typ of one package in the loop over pkgs of both synthesizers: nil ends
\* the function with "" (returned), a basic underlying type ends the loop
\* with its name (found), anything else goes on to the next package.
loopStep(typ) ==
    IF typ = NilType THEN [returned |-> TRUE, found |-> FALSE, name |-> ""]
    ELSE IF IsBasic(typ)
    THEN [returned |-> FALSE, found |-> TRUE, name |-> Underlying(typ).name]
    ELSE [returned |-> FALSE, found |-> FALSE, name |-> ""]

\* The loop over pkgs, from package i on; name is "" when it runs out.
RECURSIVE basicNameFrom(_, _, _)
RECURSIVE basicNameNext(_, _, _, _)
basicNameFrom(pkgs, t, i) ==
    IF i > Len(pkgs) THEN [returned |-> FALSE, found |-> FALSE, name |-> ""]
    ELSE basicNameNext(pkgs, t, i, loopStep(TypeOf(pkgs[i], t)))
basicNameNext(pkgs, t, i, step) ==
    IF step.returned \/ step.found THEN step ELSE basicNameFrom(pkgs, t, i + 1)

\* The switch on the underlying basic name of exprToTestDefaultValue.
namedLiteral(tName, name) ==
    CASE name = "string" -> tName \o "(\"str\")"
      [] name \in IntNames -> tName \o "(1)"
      [] name = "bool" -> tName \o "(true)"
      [] name \in FloatNames -> tName \o "(1.0)"
      [] name = "byte" -> tName \o "1"
      [] OTHER -> tName \o "{}"

\* The switch on the underlying basic name of exprToTestDefaultValue2.
namedLiteral2(tName, name) ==
    CASE name = "string" -> tName \o "(\"str\")"
      [] name \in IntNames -> tName \o "(2)"
      [] name = "bool" -> tName \o "(false)"
      [] name \in FloatNames -> tName \o "(2.0)"
      [] name = "byte" -> tName \o "2"
      [] OTHER -> tName \o "{}"

\* The *ast.Ident case of exprToTestDefaultValue after the first switch,
\* once its loadPackages call answered r and the loop over pkgs ended in b.
namedValue(t, r, b) ==
    [val |-> IF b.returned THEN "" ELSE namedLiteral(t.Name, b.name), st |-> r.st]
lookupValue(t, r) ==
    IF r.err THEN [val |-> "", st |-> [r.st EXCEPT !.panicked = TRUE]]
    ELSE namedValue(t, r, basicNameFrom(r.resp.packages, t, 1))

\* The *ast.Ident case of exprToTestDefaultValue.
identValue(t, dirPath, st, o) ==
    IF InNameSwitch(t.Name) THEN [val |-> scalarLiteral(t.Name), st |-> st]
    ELSE lookupValue(t, loadPackages(dirPath, st, o))

\* The same of exprToTestDefaultValue2.
namedValue2(t, r, b) ==
    [val |-> IF b.returned THEN "" ELSE namedLiteral2(t.Name, b.name), st |-> r.st]
lookupValue2(t, r) ==
    IF r.err THEN [val |-> "", st |-> [r.st EXCEPT !.panicked = TRUE]]
    ELSE namedValue2(t, r, basicNameFrom(r.resp.packages, t, 1))

\* The *ast.Ident case of exprToTestDefaultValue2.
identValue2(t, dirPath, st, o) ==
    IF InNameSwitch(t.Name) THEN [val |-> scalarLiteral2(t.Name), st |-> st]
    ELSE lookupValue2(t, loadPackages(dirPath, st, o))

\* The slice literal with two elements instead of three.
arrayLiteralTwo(eltType, eltZero) ==
    "[]" \o eltType \o "{\n\t\t\t\t" \o eltZero \o ",\n\t\t\t\t" \o eltZero
         \o ",\n\t\t\t}"

\* fmt.Sprintf of the slice literal: three elements, one per line.
arrayLiteral(eltType, eltZero) ==
    "[]" \o eltType \o "{\n\t\t\t\t" \o eltZero \o ",\n\t\t\t\t" \o eltZero
         \o ",\n\t\t\t\t" \o eltZero \o ",\n\t\t\t}"

\* fmt.Sprintf of the map literal: one entry.
mapLiteral(keyType, valueType, keyZero, valueZero) ==
    "map[" \o keyType \o "]" \o valueType \o "{\n\t\t\t\t" \o keyZero \o ": "
           \o valueZero \o ",\n\t\t\t}"

\* A panic ends the evaluation: the values computed after it do not exist.
Panicked(st) == [val |-> "", st |-> st]

\* The *ast.ArrayType case once the element's value e is computed.
arrayValue(expr, e) ==
    IF e.st.panicked THEN Panicked(e.st)
    ELSE [val |-> arrayLiteral(exprToString(expr.Elt), e.val), st |-> e.st]

\* The *ast.MapType case once the key's value k and the value's v are computed.
mapValue(expr, k, v) ==
    IF v.st.panicked THEN Panicked(v.st)
    ELSE [val |-> mapLiteral(exprToString(expr.Key), exprToString(expr.Value),
                             k.val, v.val),
          st |-> v.st]

\* exprToTestDefaultValue; valueOf is its body after isPrimitivePointer
\* answered p, mapValueOf its *ast.MapType case after the key's value k.
RECURSIVE exprToTestDefaultValue(_, _, _, _)
RECURSIVE valueOf(_, _, _, _)
RECURSIVE mapValueOf(_, _, _, _)
exprToTestDefaultValue(expr, dirPath, st, o) ==
    valueOf(expr, dirPath, o, isPrimitivePointer(expr, dirPath, st, o))
valueOf(expr, dirPath, o, p) ==
    IF p.st.panicked THEN Panicked(p.st)
    ELSE IF p.val THEN exprToTestDefaultValue(expr.X, dirPath, p.st, o)
    ELSE CASE expr.kind = "StarExpr" ->
                [val |-> "new(" \o exprToString(expr.X) \o ")", st |-> p.st]
           [] expr.kind = "ArrayType" ->
                arrayValue(expr, exprToTestDefaultValue(expr.Elt, dirPath, p.st, o))
           [] expr.kind = "MapType" ->
                mapValueOf(expr, dirPath, o,
                           exprToTestDefaultValue(expr.Key, dirPath, p.st, o))
           [] expr.kind = "Ident" -> identValue(expr, dirPath, p.st, o)
           [] OTHER -> [val |-> exprToString(expr) \o "{}", st |-> p.st]
mapValueOf(expr, dirPath, o, k) ==
    IF k.st.panicked THEN Panicked(k.st)
    ELSE mapValue(expr, k, exprToTestDefaultValue(expr.Value, dirPath, k.st, o))

\* valueOf2 without the primitive pointer case of its first lines.
valueOf2NoPrimitive(expr, dirPath, o, p) ==
    IF p.st.panicked THEN Panicked(p.st)
    ELSE CASE expr.kind = "StarExpr" ->
                [val |-> "new(" \o exprToString(expr.X) \o ")", st |-> p.st]
           [] expr.kind = "ArrayType" ->
                arrayValue(expr, exprToTestDefaultValue(expr.Elt, dirPath, p.st, o))
           [] expr.kind = "MapType" ->
                mapValueOf(expr, dirPath, o,
                           exprToTestDefaultValue(expr.Key, dirPath, p.st, o))
           [] expr.kind = "Ident" -> identValue2(expr, dirPath, p.st, o)
           [] OTHER -> [val |-> exprToString(expr) \o "{}", st |-> p.st]

\* exprToTestDefaultValue2; valueOf2 is its body after isPrimitivePointer
\* answered p.  Its pointer, slice and map cases call exprToTestDefaultValue.
valueOf2(expr, dirPath, o, p) ==
    IF p.st.panicked THEN Panicked(p.st)
    ELSE IF p.val THEN exprToTestDefaultValue(expr.X, dirPath, p.st, o)
    ELSE CASE expr.kind = "StarExpr" ->
                [val |-> "new(" \o exprToString(expr.X) \o ")", st |-> p.st]
           [] expr.kind = "ArrayType" ->
                arrayValue(expr, exprToTestDefaultValue(expr.Elt, dirPath, p.st, o))
           [] expr.kind = "MapType" ->
                mapValueOf(expr, dirPath, o,
                           exprToTestDefaultValue(expr.Key, dirPath, p.st, o))
           [] expr.kind = "Ident" -> identValue2(expr, dirPath, p.st, o)
           [] OTHER -> [val |-> exprToString(expr) \o "{}", st |-> p.st]
exprToTestDefaultValue2(expr, dirPath, st, o) ==
    valueOf2(expr, dirPath, o, isPrimitivePointer(expr, dirPath, st, o))

(***************************************************************************)
(* collectTmplData, the body of its loop over the field entries of a       *)
(* struct: what is computed once per entry and shared by its names.        *)
(***************************************************************************)
\* The string itself, nothing dropped.
DropNone(str) == str

\* s[1:] of a Go string.
DropFirst(str) == SubSeq(str, 2, Len(str))

\* The values of the entry once isPrimitivePointer answered p,
\* exprToTestDefaultValue a and exprToTestDefaultValue2 b.
fieldValues(fieldType, p, a, b) ==
    [Type |-> fieldType,
     DeferrencedFieldType |-> IF p.val THEN DropFirst(fieldType) ELSE "",
     PrimitivePointer |-> p.val,
     NonZeroValue |-> a.val,
     NonZeroValue2 |-> b.val,
     st |-> b.st]

\* A panic in one of the three calls: no value exists.
fieldPanic(fieldType, st) ==
    [Type |-> fieldType, DeferrencedFieldType |-> "", PrimitivePointer |-> FALSE,
     NonZeroValue |-> "", NonZeroValue2 |-> "", st |-> st]

fieldAfterA(fieldTypeExpr, dirPath, o, p, a) ==
    IF a.st.panicked THEN fieldPanic(exprToString(fieldTypeExpr), a.st)
    ELSE fieldValues(exprToString(fieldTypeExpr), p, a,
                     exprToTestDefaultValue2(fieldTypeExpr, dirPath, a.st, o))

fieldAfterClassify(fieldTypeExpr, dirPath, o, p) ==
    IF p.st.panicked THEN fieldPanic(exprToString(fieldTypeExpr), p.st)
    ELSE fieldAfterA(fieldTypeExpr, dirPath, o, p,
                     exprToTestDefaultValue(fieldTypeExpr, dirPath, p.st, o))

fieldInfo(fieldTypeExpr, dirPath, st, o) ==
    fieldAfterClassify(fieldTypeExpr, dirPath, o,
                       isPrimitivePointer(fieldTypeExpr, dirPath, st, o))

(***************************************************************************)
(* go/ast declarations of a file, as collectTmplData reads them.           *)
(***************************************************************************)
\* *ast.Field: one entry of a field list; no names is an embedded field.
Field(names, type) == [Names |-> names, Type |-> type]
StructType(list) == [kind |-> "StructType", Fields |-> list]
InterfaceType == [kind |-> "InterfaceType"]
\* typeParams is the list of the entries of TypeParams, each a list of
\* names; the empty list is TypeParams == nil.
TypeSpec(name, typeParams, type) ==
    [kind |-> "TypeSpec", Name |-> name, TypeParams |-> typeParams, Type |-> type]
\* name is "" when the import has no alias (imp.Name == nil).
ImportSpec(name, path) == [kind |-> "ImportSpec", Name |-> name, Path |-> path]
GenDecl(tok, specs) == [kind |-> "GenDecl", Tok |-> tok, Specs |-> specs]
FuncDecl(name) == [kind |-> "FuncDecl", Name |-> name]
File(name, decls) == [Name |-> name, Decls |-> decls]

\* node.Imports: the import specs of the file in source order.
RECURSIVE Imports(_)
Imports(decls) ==
    IF Len(decls) = 0 THEN <<>>
    ELSE (IF Head(decls).kind = "GenDecl" /\ Head(decls).Tok = "import"
          THEN Head(decls).Specs ELSE <<>>) \o Imports(Tail(decls))

importString(imp) == IF imp.Name # "" THEN imp.Name \o " " \o imp.Path ELSE imp.Path

collectImports(node) ==
    [i \in 1..Len(Imports(node.Decls)) |-> importString(Imports(node.Decls)[i])]

(***************************************************************************)
(* collectTmplData                                                         *)
(***************************************************************************)
StructField(name, r) ==
    [Name |-> name, Type |-> r.Type,
     DeferrencedFieldType |-> r.DeferrencedFieldType,
     PrimitivePointer |-> r.PrimitivePointer,
     NonZeroValue |-> r.NonZeroValue, NonZeroValue2 |-> r.NonZeroValue2]

\* Only the first name of the entry gets a StructField.
namedFieldsFirst(names, r) ==
    [i \in 1..(IF Len(names) > 0 THEN 1 ELSE 0) |-> StructField(names[i], r)]

\* The loop over field.Names: one StructField per name, in order.
namedFields(names, r) == [i \in 1..Len(names) |-> StructField(names[i], r)]

\* The loop over structType.Fields.List, from the entries in list on, with
\* the fields appended so far; a panic ends it.
RECURSIVE collectFields(_, _, _, _, _)
RECURSIVE collectFieldsNext(_, _, _, _, _)
collectFields(list, dirPath, st, o, fields) ==
    IF Len(list) = 0 \/ st.panicked THEN [fields |-> fields, st |-> st]
    ELSE collectFieldsNext(list, dirPath, o, fields,
                           fieldInfo(Head(list).Type, dirPath, st, o))

collectFieldsNext(list, dirPath, o, fields, r) ==
    collectFields(Tail(list), dirPath, r.st, o,
                  IF r.st.panicked THEN fields
                  ELSE fields \o namedFields(Head(list).Names, r))

\* The names of typeSpec.TypeParams.List, entry after entry.
RECURSIVE typeParamNames(_)
typeParamNames(params) ==
    IF Len(params) = 0 THEN <<>>
    ELSE Head(params) \o typeParamNames(Tail(params))

typeParamsStr(typeParams) ==
    IF Len(typeParams) > 0 THEN "[" \o Join(typeParams, ", ") \o "]" ELSE ""

StructInfo(typeSpec, fields) ==
    [StructName |-> typeSpec.Name, Fields |-> fields,
     TypeParamsStr |-> typeParamsStr(typeParamNames(typeSpec.TypeParams))]

\* The specs of a declaration that pass the three type tests of the loops:
\* a GenDecl of token TYPE, a TypeSpec, a StructType.
isStructSpec(spec) == spec.kind = "TypeSpec" /\ spec.Type.kind = "StructType"

structSpecsOf(decl) ==
    IF decl.kind = "GenDecl" /\ decl.Tok = "type"
    THEN SelectSeq(decl.Specs, isStructSpec) ELSE <<>>

RECURSIVE structSpecs(_)
structSpecs(decls) ==
    IF Len(decls) = 0 THEN <<>>
    ELSE structSpecsOf(Head(decls)) \o structSpecs(Tail(decls))

\* A struct without fields, appended where the code appends every struct.
appendStruct(structs, typeSpec, fields) ==
    Append(structs, StructInfo(typeSpec, fields))

\* The two outer loops, from the struct specs in specs on: acc holds structs
\* and fieldCnt so far.
RECURSIVE collectStructs(_, _, _, _, _)
RECURSIVE collectStructsNext(_, _, _, _, _)
collectStructs(specs, dirPath, st, o, acc) ==
    IF Len(specs) = 0 \/ st.panicked
    THEN [structs |-> acc.structs, fieldCnt |-> acc.fieldCnt, st |-> st]
    ELSE collectStructsNext(specs, dirPath, o, acc,
                            collectFields(Head(specs).Type.Fields, dirPath, st, o, <<>>))

collectStructsNext(specs, dirPath, o, acc, f) ==
    collectStructs(Tail(specs), dirPath, f.st, o,
                   [structs |-> appendStruct(acc.structs, Head(specs), f.fields),
                    fieldCnt |-> acc.fieldCnt + Len(f.fields)])

\* filepath.Dir of a cleaned path: all but the last element.
RECURSIVE filepathDir(_)
filepathDir(path) ==
    IF path = "" THEN "."
    ELSE IF SubSeq(path, Len(path), Len(path)) = "/"
         THEN (IF Len(path) = 1 THEN "/" ELSE SubSeq(path, 1, Len(path) - 1))
         ELSE filepathDir(SubSeq(path, 1, Len(path) - 1))

\* A nil *FileData.
NilFileData ==
    [isNil |-> TRUE, PackageName |-> "", Imports |-> <<>>, Structs |-> <<>>,
     Mode |-> ""]

FileData(node, imports, structs, mode) ==
    [isNil |-> FALSE, PackageName |-> node.Name, Imports |-> imports,
     Structs |-> structs, Mode |-> mode]

\* The end of collectTmplData without the test of fieldCnt.
tmplDataOfNoSkip(node, mode, c) ==
    IF c.st.panicked THEN [val |-> NilFileData, st |-> c.st]
    ELSE [val |-> FileData(node, collectImports(node), c.structs, mode), st |-> c.st]

\* The end of collectTmplData, once the loops gave c.
tmplDataOf(node, mode, c) ==
    IF c.st.panicked \/ c.fieldCnt = 0 THEN [val |-> NilFileData, st |-> c.st]
    ELSE [val |-> FileData(node, collectImports(node), c.structs, mode), st |-> c.st]

collectTmplData(node, filePath, mode, st, o) ==
    tmplDataOf(node, mode,
               collectStructs(structSpecs(node.Decls), filepathDir(filePath), st, o,
                              [structs |-> <<>>, fieldCnt |-> 0]))

(***************************************************************************)
(* main.go: processFile and what it calls.                                 *)
(***************************************************************************)
HasSuffix(s, suffix) ==
    Len(s) >= Len(suffix) /\ SubSeq(s, Len(s) - Len(suffix) + 1, Len(s)) = suffix

TrimSuffix(s, suffix) ==
    IF HasSuffix(s, suffix) THEN SubSeq(s, 1, Len(s) - Len(suffix)) ELSE s

\* filepath.Base of a cleaned path: its last element.
RECURSIVE filepathBase(_)
filepathBase(path) ==
    IF path = "" THEN "."
    ELSE IF SubSeq(path, 1, 1) = "/" /\ Len(path) > 1
         THEN filepathBase(Tail(path))
         ELSE IF \E i \in 1..Len(path) : SubSeq(path, i, i) = "/"
              THEN filepathBase(Tail(path)) ELSE path

\* ignoreFile that only tests for the .go suffix.
ignoreFileGoOnly(path) == ~HasSuffix(path, ".go")

ignoreFile(path) ==
    \/ ~HasSuffix(path, ".go")
    \/ HasSuffix(path, "_accessor_gen.go")
    \/ HasSuffix(path, "_test.go")

\* executeTmpl renders the artifact through the template of its mode, or
\* fails (ok is whether it succeeds).
executeTmpl(data, filePath, ok) ==
    [bytes |-> IF ok THEN [rendered |-> data, formatted |-> FALSE] ELSE <<>>,
     err |-> ~ok]

\* goImportsAndFormat: imports.Process succeeds or fails.
goImportsAndFormat(source, filename, ok) ==
    [bytes |-> IF ok THEN [source EXCEPT !.formatted = TRUE] ELSE <<>>, err |-> ~ok]

outputFilePath(filePath) ==
    IF HasSuffix(filePath, "_gen.go")
    THEN TrimSuffix(filePath, "_gen.go") \o "_accessor_gen.go"
    ELSE TrimSuffix(filePath, ".go") \o "_accessor_gen.go"

\* writeToFile: os.WriteFile succeeds or fails; files are the files written.
writeToFile(bytes, filePath, files, ok) ==
    [files |-> IF ok THEN MapStore(files, outputFilePath(filePath), bytes) ELSE files,
     err |-> ~ok]

\* What processFile did: the error it returned, the artifact it collected,
\* how often the template and the formatter ran, and the files it wrote.
FileResult(err, data, tmplRuns, formatRuns, files, st) ==
    [err |-> err, data |-> data, tmplRuns |-> tmplRuns, formatRuns |-> formatRuns,
     files |-> files, st |-> st]

fileAfterFormat(filePath, files, ok, d, g) ==
    IF g.err THEN FileResult("error formatting file", d.val, 1, 1, files, d.st)
    ELSE IF writeToFile(g.bytes, filePath, files, ok.write).err
         THEN FileResult("error writing file", d.val, 1, 1, files, d.st)
         ELSE FileResult("", d.val, 1, 1,
                         writeToFile(g.bytes, filePath, files, ok.write).files, d.st)

fileAfterTmpl(filePath, files, ok, d, t) ==
    IF t.err THEN FileResult("error generating tmpl", d.val, 1, 0, files, d.st)
    ELSE fileAfterFormat(filePath, files, ok, d,
                         goImportsAndFormat(t.bytes, filePath, ok.format))

fileAfterCollect(filePath, files, ok, d) ==
    IF d.st.panicked \/ d.val.isNil THEN FileResult("", d.val, 0, 0, files, d.st)
    ELSE fileAfterTmpl(filePath, files, ok, d, executeTmpl(d.val, filePath, ok.tmpl))

\* processFile(node, filePath, mode): ok says which of the template, the
\* formatter and the write succeed if they are run.
processFile(node, filePath, mode, files, st, o, ok) ==
    IF ignoreFile(filepathBase(filePath))
    THEN FileResult("", NilFileData, 0, 0, files, st)
    ELSE fileAfterCollect(filePath, files, ok,
                          collectTmplData(node, filePath, mode, st, o))

(***************************************************************************)
(* option.go: the generation mode and the functional options.              *)
(***************************************************************************)
ModeUnknown == ""
ModeGetter == "getter"
ModeSetter == "setter"
ModeAccessor == "accessor"
Modes == {ModeUnknown, ModeGetter, ModeSetter, ModeAccessor}

\* The working directory read by init().
cwd == "/cwd"

\* filepath.Clean on the directories the model passes to Dir.
Clean(dir) ==
    CASE dir = "" -> "."
      [] dir = "/a/" -> "/a"
      [] dir = "/a/../b" -> "/b"
      [] OTHER -> dir

\* The Options that FuncOptions.New starts from.
DefaultOptions == [Dir |-> cwd, Mode |-> ModeAccessor, Recursive |-> FALSE]

\* The closures returned by Dir, Mode and Recursive, applied to o.
Dir(dir, o) == [o EXCEPT !.Dir = Clean(dir)]
Mode(m, o) == [o EXCEPT !.Mode = m]
Recursive(recursive, o) == [o EXCEPT !.Recursive = recursive]

\* EnableGetters without its switch on the previous mode.
EnableGettersOverride(o) == [o EXCEPT !.Mode = ModeGetter]

\* The closures returned by the four toggles, applied to o.
EnableGetters(o) ==
    [o EXCEPT !.Mode = IF o.Mode = ModeSetter THEN ModeAccessor ELSE ModeGetter]
EnableSetters(o) ==
    [o EXCEPT !.Mode = IF o.Mode = ModeGetter THEN ModeAccessor ELSE ModeSetter]
\* DisableGetters without its switch on the previous mode.
DisableGettersOverride(o) == [o EXCEPT !.Mode = ModeUnknown]
DisableGetters(o) ==
    [o EXCEPT !.Mode = IF o.Mode = ModeAccessor THEN ModeSetter ELSE ModeUnknown]
DisableSetters(o) ==
    [o EXCEPT !.Mode = IF o.Mode = ModeAccessor THEN ModeGetter ELSE ModeUnknown]

\* The option values the model passes: --mode takes any string.
DirArgs == {"/a", "/a/", "/a/../b", ""}
ModeArgs == Modes \cup {"both"}
Toggles == {"EnableGetters", "EnableSetters", "DisableGetters", "DisableSetters"}
FuncOption ==
    {[f |-> "Dir", arg |-> d] : d \in DirArgs}
    \cup {[f |-> "Mode", arg |-> m] : m \in ModeArgs}
    \cup {[f |-> "Recursive", arg |-> b] : b \in BOOLEAN}
    \cup {[f |-> t, arg |-> ""] : t \in Toggles}

SeqsUpTo(S, n) == UNION {[1..k -> S] : k \in 0..n}

NoOption == [f |-> "none", arg |-> "", before |-> "", applied |-> <<>>]

\* The state of the options when nothing is being built.
OptionsAtRest ==
    /\ options = DefaultOptions
    /\ fs = <<>>
    /\ last = NoOption

\* No field entry is being resolved.
NoField ==
    [state |-> "none", expr |-> Ident(""), dirPath |-> "", answer |-> LoadError,
     Type |-> "", DeferrencedFieldType |-> "", PrimitivePointer |-> FALSE,
     NonZeroValue |-> "", NonZeroValue2 |-> "", before |-> <<>>]

\* The goroutines that may call loadPackages at the same time.
Callers == {"g1", "g2"}

\* A goroutine outside loadPackages.
Outside == [pc |-> "idle", dirPath |-> "", resp |-> NilResp, err |-> FALSE]

CallersAtRest == [g \in Callers |-> Outside]

\* No file is being processed.
NoUnit ==
    [state |-> "none", filePath |-> "", node |-> File("", <<>>), mode |-> ModeUnknown,
     answer |-> LoadError, err |-> "", data |-> NilFileData, tmplRuns |-> 0,
     formatRuns |-> 0, files |-> <<>>]

\* No run of process is going on.
NoRun ==
    [n |-> 0, phase |-> "none", recursive |-> FALSE, mode |-> ModeUnknown,
     worklist |-> <<>>, dir |-> "", todo |-> <<>>, err |-> "", errors |-> 0,
     loaded |-> <<>>, processed |-> <<>>, written |-> <<>>, created |-> {},
     earlier |-> <<>>, disk |-> <<>>]

(***************************************************************************)
(* The sequential cache specification: loadPackages and                    *)
(* isPrimitivePointer called one after the other, on any path.             *)
(***************************************************************************)
State == [cache |-> packageCache, analyses |-> analyses, failures |-> failures,
          nextId |-> nextId, panicked |-> panicked]

SetState(st) ==
    /\ packageCache' = st.cache
    /\ analyses' = st.analyses
    /\ failures' = st.failures
    /\ nextId' = st.nextId
    /\ panicked' = st.panicked

Idle == [op |-> "idle"]

\* What packages.Load may answer for dirPath in this state: nothing is asked
\* on a cache hit, and the run is bounded.
Answers(dirPath) ==
    IF analyses[dirPath] < MaxAnalyses THEN Outcomes
    ELSE IF dirPath \in DOMAIN packageCache THEN {LoadError} ELSE {}

InitCache ==
    /\ packageCache = <<>>
    /\ analyses = [p \in Paths |-> 0]
    /\ failures = [p \in Paths |-> 0]
    /\ nextId = 1
    /\ panicked = FALSE

Init ==
    /\ InitCache
    /\ call = Idle
    /\ OptionsAtRest
    /\ field = NoField
    /\ callers = CallersAtRest
    /\ unit = NoUnit
    /\ run = NoRun

LoadPackages ==
    /\ call = Idle /\ ~panicked
    /\ \E dirPath \in Paths : \E o \in Answers(dirPath) :
         LET r == loadPackages(dirPath, State, o) IN
         /\ SetState(r.st)
         /\ call' = [op |-> "loadPackages", dirPath |-> dirPath,
                     resp |-> r.resp, err |-> r.err, before |-> packageCache]
    /\ UNCHANGED <<optVars, field, callers, unit, run>>

Return ==
    /\ call # Idle /\ ~panicked
    /\ call' = Idle
    /\ UNCHANGED <<cacheVars, optVars, field, callers, unit, run>>

Next == LoadPackages \/ Return

Spec == Init /\ [][Next]_vars

(***************************************************************************)
(* Claims about the cache (specification Spec).                            *)
(***************************************************************************)
\* C3 as stated: after any loadPackages call for a path the analysis of that
\* path has run exactly once and the call returned the stored resolution.
C3_Original ==
    call.op = "loadPackages" =>
        /\ analyses[call.dirPath] = 1
        /\ ~call.err
        /\ call.dirPath \in DOMAIN packageCache
        /\ call.resp = packageCache[call.dirPath]

\* C3 (amended): the analysis of a path succeeds at most once, and exactly
\* once when the path is cached; every loadPackages call that returns no
\* error returns the stored resolution, the one stored before the call when
\* there was one; two paths never share a resolution; a stored entry is
\* never replaced or removed and its path is never analysed again.  (A
\* failed analysis stores nothing and is run again by the next call.)
C3_CachedOnce ==
    /\ [](\A p \in Paths :
            /\ analyses[p] - failures[p] = (IF p \in DOMAIN packageCache THEN 1 ELSE 0)
            /\ \A q \in DOMAIN packageCache :
                 p \in DOMAIN packageCache /\ packageCache[p].id = packageCache[q].id
                    => p = q)
    /\ [](call.op = "loadPackages" /\ ~call.err =>
            /\ call.dirPath \in DOMAIN packageCache
            /\ call.resp = packageCache[call.dirPath]
            /\ call.dirPath \in DOMAIN call.before
                 => call.resp = call.before[call.dirPath])
    /\ [][\A p \in DOMAIN packageCache :
            /\ p \in DOMAIN packageCache'
            /\ packageCache'[p] = packageCache[p]
            /\ analyses'[p] = analyses[p]]_vars

\* C3 witness: a call hit the cache for a path that was loaded after a
\* failed attempt, with the other path loaded as well.
C3_Witness ==
    /\ call.op = "loadPackages"
    /\ call.dirPath \in DOMAIN call.before
    /\ failures[call.dirPath] >= 1
    /\ DOMAIN packageCache = Paths

(***************************************************************************)
(* FuncOptions.New: the options of fs applied in order to the defaults.    *)
(***************************************************************************)
InitOptions ==
    /\ InitCache
    /\ call = Idle
    /\ options = DefaultOptions
    /\ fs \in SeqsUpTo(FuncOption, MaxOptions)
    /\ last = NoOption
    /\ field = NoField
    /\ callers = CallersAtRest
    /\ unit = NoUnit
    /\ run = NoRun

\* One iteration of the loop of New: f(options) for the next f of kind k.
Apply(k, result) ==
    /\ fs # <<>>
    /\ Head(fs).f = k
    /\ options' = result
    /\ last' = [f |-> k, arg |-> Head(fs).arg, before |-> options.Mode,
                applied |-> Append(last.applied, Head(fs))]
    /\ fs' = Tail(fs)
    /\ UNCHANGED <<cacheVars, call, field, callers, unit, run>>

ApplyDir == Apply("Dir", Dir(Head(fs).arg, options))
ApplyMode == Apply("Mode", Mode(Head(fs).arg, options))
ApplyRecursive == Apply("Recursive", Recursive(Head(fs).arg, options))
ApplyEnableGetters == Apply("EnableGetters", EnableGetters(options))
ApplyEnableSetters == Apply("EnableSetters", EnableSetters(options))
ApplyDisableGetters == Apply("DisableGetters", DisableGetters(options))
ApplyDisableSetters == Apply("DisableSetters", DisableSetters(options))

NextOptions ==
    \/ ApplyDir
    \/ ApplyMode
    \/ ApplyRecursive
    \/ ApplyEnableGetters
    \/ ApplyEnableSetters
    \/ ApplyDisableGetters
    \/ ApplyDisableSetters

SpecOptions == InitOptions /\ [][NextOptions]_vars

(***************************************************************************)
(* Claims about the generation mode (specification SpecOptions).           *)
(***************************************************************************)
GettersEnabled(m) == m \in {ModeGetter, ModeAccessor}
SettersEnabled(m) == m \in {ModeSetter, ModeAccessor}

\* C1: each toggle maps the mode it finds as the table says: EnableGetters
\* setter to accessor and any other mode to getter, EnableSetters getter to
\* accessor and any other to setter, DisableGetters accessor to setter and
\* any other to unknown, DisableSetters accessor to getter and any other to
\* unknown; the result is always one of the four modes.
C1_ToggleTable ==
    /\ last.f = "EnableGetters" =>
         options.Mode = (IF last.before = "setter" THEN "accessor" ELSE "getter")
    /\ last.f = "EnableSetters" =>
         options.Mode = (IF last.before = "getter" THEN "accessor" ELSE "setter")
    /\ last.f = "DisableGetters" =>
         options.Mode = (IF last.before = "accessor" THEN "setter" ELSE "")
    /\ last.f = "DisableSetters" =>
         options.Mode = (IF last.before = "accessor" THEN "getter" ELSE "")
    /\ last.f \in Toggles => options.Mode \in {"", "getter", "setter", "accessor"}

\* C1 witness: EnableSetters found getter and left accessor, after another
\* toggle had run.
C1_Witness ==
    /\ last.f = "EnableSetters"
    /\ last.before = "getter"
    /\ options.Mode = "accessor"
    /\ fs # <<>>
    /\ Head(fs).f = "DisableGetters"

\* C2 as stated: a getter toggle leaves the setters enabled exactly when they
\* were, and a setter toggle leaves the getters enabled exactly when they
\* were.
C2_TogglesKeepOtherKind ==
    /\ last.f \in {"EnableGetters", "DisableGetters"} =>
         (SettersEnabled(options.Mode) <=> SettersEnabled(last.before))
    /\ last.f \in {"EnableSetters", "DisableSetters"} =>
         (GettersEnabled(options.Mode) <=> GettersEnabled(last.before))

(***************************************************************************)
(* The field types the model resolves.                                     *)
(***************************************************************************)
NamedIdents ==
    {"MyInt", "MyStr", "MyBool", "MyFloat", "MyByte", "MyRune", "Rec", "Undef", "Ghost"}

\* Every name and every other leaf shape, each also under one pointer or
\* slice or array.
Leaves ==
    {Ident(n) : n \in ScalarNames \cup NamedIdents}
    \cup {SelectorExpr(Ident("time"), "Duration"), SelectorExpr(Ident("time"), "Time"),
          IndexExpr(Ident("Box"), Ident("int")),
          IndexListExpr(Ident("Pair"), <<Ident("string"), Ident("int")>>),
          OtherExpr("FuncType"), OtherExpr("InterfaceType")}

\* The leaves that nested types are built from.
CoreLeaves ==
    {Ident(n) : n \in {"string", "int", "bool", "byte", "float64", "rune",
                       "MyInt", "MyStr", "Rec", "Ghost"}}
    \cup {SelectorExpr(Ident("time"), "Duration"), OtherExpr("FuncType")}

Unary(S) ==
    {StarExpr(e) : e \in S} \cup {ArrayType("", e) : e \in S}
        \cup {ArrayType("4", e) : e \in S}

RECURSIVE ExprsOfSize(_)
ExprsOfSize(n) ==
    IF n = 1 THEN CoreLeaves
    ELSE Unary(ExprsOfSize(n - 1))
         \cup UNION {{MapType(k, v) : k \in ExprsOfSize(i), v \in ExprsOfSize(n - 1 - i)} :
                        i \in 1..(n - 2)}

TypeExprs == Leaves \cup Unary(Leaves) \cup UNION {ExprsOfSize(n) : n \in 1..MaxNodes}

(***************************************************************************)
(* The field specification: one field entry of a struct of a file in       *)
(* directory FieldDir is resolved as the loop of collectTmplData does,     *)
(* after processNonRecursively has loaded the directory or on its own.     *)
(***************************************************************************)
FieldDir == "/a"

InitField ==
    /\ InitCache
    /\ call = Idle
    /\ OptionsAtRest
    /\ callers = CallersAtRest
    /\ unit = NoUnit
    /\ run = NoRun
    /\ \E expr \in TypeExprs : \E o \in Outcomes :
         field = [NoField EXCEPT !.state = "pending", !.expr = expr,
                                 !.dirPath = FieldDir, !.answer = o]

\* processNonRecursively: the directory is loaded before any file of it is
\* processed; a load error ends the run.
LoadDirectory ==
    /\ field.state = "pending"
    /\ field.dirPath \notin DOMAIN packageCache
    /\ analyses[field.dirPath] = 0
    /\ LET r == loadPackages(field.dirPath, State, field.answer) IN
       /\ SetState(r.st)
       /\ field' = [field EXCEPT !.state = IF r.err THEN "aborted" ELSE "pending"]
    /\ UNCHANGED <<call, optVars, callers, unit, run>>

\* collectTmplData: one iteration of the loop over structType.Fields.List,
\* up to the loop over the names of the entry.
ResolveField ==
    /\ field.state = "pending"
    /\ LET r == fieldInfo(field.expr, field.dirPath, State, field.answer) IN
       /\ SetState(r.st)
       /\ field' = [field EXCEPT !.state = "done",
                                 !.Type = r.Type,
                                 !.DeferrencedFieldType = r.DeferrencedFieldType,
                                 !.PrimitivePointer = r.PrimitivePointer,
                                 !.NonZeroValue = r.NonZeroValue,
                                 !.NonZeroValue2 = r.NonZeroValue2]
    /\ UNCHANGED <<call, optVars, callers, unit, run>>

\* isPrimitivePointer called on the field type, as collectTmplData and both
\* synthesizers call it; before is the process state it was called in.
ClassifyField ==
    /\ field.state = "pending"
    /\ LET p == isPrimitivePointer(field.expr, field.dirPath, State, field.answer) IN
       /\ SetState(p.st)
       /\ field' = [field EXCEPT !.state = "classified",
                                 !.PrimitivePointer = p.val,
                                 !.before = State]
    /\ UNCHANGED <<call, optVars, callers, unit, run>>

NextField == LoadDirectory \/ ResolveField \/ ClassifyField

SpecField == InitField /\ [][NextField]_vars

\* The field entry has been resolved and its values exist.
Resolved == field.state = "done" /\ ~panicked

(***************************************************************************)
(* Claims about the example values (specification SpecField).              *)
(***************************************************************************)
\* The texts that denote the zero value of scalar kind k.
ZeroLiterals(k) ==
    {"", "0", "0.0", "\"\"", "false", k \o "(0)", k \o "(0.0)", k \o "{}"}

\* C7 as stated: for every built-in scalar kind the two example values
\* differ and neither is the zero value of the kind; for bool A is true and
\* B is false.
C7_ScalarValuesDiffer ==
    Resolved /\ field.expr.kind = "Ident" /\ field.expr.Name \in ScalarNames =>
        /\ field.NonZeroValue # field.NonZeroValue2
        /\ field.NonZeroValue \notin ZeroLiterals(field.expr.Name)
        /\ field.expr.Name # "bool" =>
             field.NonZeroValue2 \notin ZeroLiterals(field.expr.Name)
        /\ field.expr.Name = "bool" =>
             field.NonZeroValue = "true" /\ field.NonZeroValue2 = "false"

\* The basic kind that every loaded package gives the name expr, if there
\* is one ("" otherwise).
AgreedBasicName(expr) ==
    IF /\ field.dirPath \in DOMAIN packageCache
       /\ packageCache[field.dirPath].packages # <<>>
       /\ \A i \in 1..Len(packageCache[field.dirPath].packages) :
            /\ IsBasic(TypeOf(packageCache[field.dirPath].packages[i], expr))
            /\ Underlying(TypeOf(packageCache[field.dirPath].packages[i], expr))
                 = Underlying(TypeOf(packageCache[field.dirPath].packages[1], expr))
    THEN Underlying(TypeOf(packageCache[field.dirPath].packages[1], expr)).name
    ELSE ""

\* The scalar literals of the claim for kind k.
ClaimedLiteralA(k) ==
    CASE k = "string" -> "\"str\""
      [] k = "bool" -> "true"
      [] k \in FloatNames -> "1.0"
      [] OTHER -> "1"
ClaimedLiteralB(k) ==
    CASE k = "string" -> "\"str2\""
      [] k = "bool" -> "false"
      [] k \in FloatNames -> "2.0"
      [] OTHER -> "2"

\* C8 as stated: for a named type N whose underlying type is a scalar kind
\* the two values are the conversion N(...) of the kind's two literals, and
\* differ.
C8_NamedConversions ==
    /\ Resolved
    /\ field.expr.kind = "Ident"
    /\ field.expr.Name \notin ScalarNames
    /\ AgreedBasicName(field.expr) \in ScalarNames
    => /\ field.NonZeroValue
            = field.expr.Name \o "(" \o ClaimedLiteralA(AgreedBasicName(field.expr)) \o ")"
       /\ field.NonZeroValue2
            = field.expr.Name \o "(" \o ClaimedLiteralB(AgreedBasicName(field.expr)) \o ")"
       /\ field.NonZeroValue # field.NonZeroValue2

\* C9 as stated: for a pointer to a primitive both values are new(T), T the
\* rendered pointee type.
C9_Original ==
    Resolved /\ field.PrimitivePointer =>
        /\ field.NonZeroValue = "new(" \o exprToString(field.expr.X) \o ")"
        /\ field.NonZeroValue2 = field.NonZeroValue

\* C9 (amended): for a pointer that is classified primitive both values are
\* the first example value of the pointee type, and are equal; new(T) is
\* what both values are for a pointer that is not classified primitive.
C9_PrimitivePointerValues ==
    /\ Resolved /\ field.PrimitivePointer =>
         /\ field.expr.kind = "StarExpr"
         /\ field.NonZeroValue
              = exprToTestDefaultValue(field.expr.X, field.dirPath, State, field.answer).val
         /\ field.NonZeroValue2 = field.NonZeroValue
         /\ field.expr.X = Ident("string") => field.NonZeroValue = "\"str\""
         /\ field.expr.X = Ident("int") => field.NonZeroValue = "int(1)"
    /\ Resolved /\ field.expr.kind = "StarExpr" /\ ~field.PrimitivePointer =>
         /\ field.NonZeroValue = "new(" \o exprToString(field.expr.X) \o ")"
         /\ field.NonZeroValue2 = field.NonZeroValue

\* C9 witness: *MyInt, with MyInt an int, has MyInt(1) for both values.
C9_Witness ==
    /\ Resolved
    /\ field.PrimitivePointer
    /\ field.expr = StarExpr(Ident("MyInt"))
    /\ field.NonZeroValue = "MyInt(1)"
    /\ field.NonZeroValue2 = "MyInt(1)"

\* The first example value of type expression e in the current state.
ValueA(e) == exprToTestDefaultValue(e, field.dirPath, State, field.answer).val

\* C10: the first value of a slice or array type is the literal of the
\* rendered slice type with exactly three elements, each the first value of
\* the element type; the first value of a map type is the literal of the
\* rendered map type with the one entry first value of the key: first value
\* of the value; the second value of a slice, array or map type is the same
\* text as the first.
C10_ContainerValues ==
    /\ Resolved /\ field.expr.kind = "ArrayType" =>
         /\ field.NonZeroValue
              = "[]" \o exprToString(field.expr.Elt) \o "{\n\t\t\t\t"
                  \o ValueA(field.expr.Elt) \o ",\n\t\t\t\t"
                  \o ValueA(field.expr.Elt) \o ",\n\t\t\t\t"
                  \o ValueA(field.expr.Elt) \o ",\n\t\t\t}"
         /\ field.NonZeroValue2 = field.NonZeroValue
    /\ Resolved /\ field.expr.kind = "MapType" =>
         /\ field.NonZeroValue
              = "map[" \o exprToString(field.expr.Key) \o "]"
                  \o exprToString(field.expr.Value) \o "{\n\t\t\t\t"
                  \o ValueA(field.expr.Key) \o ": " \o ValueA(field.expr.Value)
                  \o ",\n\t\t\t}"
         /\ field.NonZeroValue2 = field.NonZeroValue

\* C10 witness: map[string][]int, a slice nested in a map.
C10_Witness ==
    /\ Resolved
    /\ field.expr = MapType(Ident("string"), ArrayType("", Ident("int")))
    /\ field.NonZeroValue
         = "map[string][]int{\n\t\t\t\t\"str\": []int{\n\t\t\t\tint(1),\n\t\t\t\tint(1),\n\t\t\t\tint(1),\n\t\t\t},\n\t\t\t}"
    /\ field.NonZeroValue2 = field.NonZeroValue

(***************************************************************************)
(* The concurrent cache specification: the goroutines of Callers call      *)
(* loadPackages at the same time.  loadPackages takes no lock, so its      *)
(* steps interleave: the map lookup, packages.Load, the map store.  Two    *)
(* unsynchronized accesses of the map, one of them a write, are a data     *)
(* race: the access completes, or the runtime detects it and the process   *)
(* dies (fatal error: concurrent map writes).                              *)
(***************************************************************************)
InitConc ==
    /\ InitCache
    /\ call = Idle
    /\ OptionsAtRest
    /\ field = NoField
    /\ callers = CallersAtRest
    /\ unit = NoUnit
    /\ run = NoRun

\* Some other goroutine is about to store into the map.
Racing(g) == \E h \in Callers \ {g} : callers[h].pc = "store"

\* The analyses of dirPath run or in progress.
Started(dirPath) ==
    analyses[dirPath]
        + Cardinality({h \in Callers : callers[h].pc = "load"
                                         /\ callers[h].dirPath = dirPath})

\* The process dies of a detected race.
Fatal(g) ==
    /\ panicked' = TRUE
    /\ UNCHANGED <<packageCache, analyses, failures, nextId, callers>>

\* Lines 18-20: the lookup; a hit returns the cached result.
Lookup(g) ==
    /\ callers[g].pc = "idle" /\ ~panicked
    /\ \E dirPath \in Paths :
         \/ /\ dirPath \in DOMAIN packageCache
            /\ callers' = [callers EXCEPT ![g] =
                              [pc |-> "done", dirPath |-> dirPath,
                               resp |-> packageCache[dirPath], err |-> FALSE]]
            /\ UNCHANGED cacheVars
         \/ /\ dirPath \notin DOMAIN packageCache
            /\ Started(dirPath) < MaxAnalyses
            /\ callers' = [callers EXCEPT ![g] =
                              [pc |-> "load", dirPath |-> dirPath,
                               resp |-> NilResp, err |-> FALSE]]
            /\ UNCHANGED cacheVars
         \/ Racing(g) /\ Fatal(g)
    /\ UNCHANGED <<call, optVars, field, unit, run>>

\* Lines 22-43: packages.Load runs; an error is returned, a result allocated.
Load(g) ==
    /\ callers[g].pc = "load" /\ ~panicked
    /\ \E o \in Outcomes :
         /\ analyses' = [analyses EXCEPT ![callers[g].dirPath] = @ + 1]
         /\ IF o.err
            THEN /\ failures' = [failures EXCEPT ![callers[g].dirPath] = @ + 1]
                 /\ callers' = [callers EXCEPT ![g].pc = "done", ![g].err = TRUE]
                 /\ UNCHANGED nextId
            ELSE /\ callers' = [callers EXCEPT ![g].pc = "store",
                                               ![g].resp = [id |-> nextId,
                                                            packages |-> o.packages]]
                 /\ nextId' = nextId + 1
                 /\ UNCHANGED failures
    /\ UNCHANGED <<packageCache, panicked, call, optVars, field, unit, run>>

\* Line 45: packageCache[dirPath] = resp.
Store(g) ==
    /\ callers[g].pc = "store" /\ ~panicked
    /\ \/ /\ packageCache' = MapStore(packageCache, callers[g].dirPath, callers[g].resp)
          /\ callers' = [callers EXCEPT ![g].pc = "done"]
          /\ UNCHANGED <<analyses, failures, nextId, panicked>>
       \/ Racing(g) /\ Fatal(g)
    /\ UNCHANGED <<call, optVars, field, unit, run>>

\* Lines 19, 38, 47: the call returns to its caller.
ReturnConc(g) ==
    /\ callers[g].pc = "done" /\ ~panicked
    /\ callers' = [callers EXCEPT ![g] = Outside]
    /\ UNCHANGED <<cacheVars, call, optVars, field, unit, run>>

NextConc ==
    \E g \in Callers : Lookup(g) \/ Load(g) \/ Store(g) \/ ReturnConc(g)

SpecConc == InitConc /\ [][NextConc]_vars

(***************************************************************************)
(* Claims about concurrent callers (specification SpecConc).               *)
(***************************************************************************)
\* The goroutines inside loadPackages for dirPath that run its analysis or
\* hold the result of one they ran.
Analysing(dirPath) ==
    {g \in Callers : callers[g].dirPath = dirPath /\ callers[g].pc \in {"load", "store"}}

\* C4: when several callers request the same path concurrently, the analysis
\* of the path runs at most once (no second analysis is started while one is
\* in flight or done), and callers that get a resolution get the same one.
C4_AtMostOnceConcurrently ==
    \A dirPath \in Paths :
        /\ Cardinality(Analysing(dirPath)) <= 1
        /\ dirPath \in DOMAIN packageCache => Analysing(dirPath) = {}
        /\ \A g, h \in Callers :
             /\ callers[g].dirPath = dirPath /\ callers[h].dirPath = dirPath
             /\ callers[g].pc = "done" /\ callers[h].pc = "done"
             /\ ~callers[g].err /\ ~callers[h].err
             => callers[g].resp = callers[h].resp

(***************************************************************************)
(* The files the model processes.                                          *)
(***************************************************************************)
Embedded == Field(<<>>, Ident("Rec"))
OneName == Field(<<"A">>, Ident("int"))
TwoNames == Field(<<"B", "C">>, StarExpr(Ident("string")))

Decls ==
    {FuncDecl("f"),
     GenDecl("import", <<ImportSpec("", "\"fmt\""), ImportSpec("t", "\"time\"")>>),
     GenDecl("type", <<TypeSpec("I", <<>>, InterfaceType)>>),
     GenDecl("type", <<TypeSpec("N", <<>>, Ident("int"))>>),
     GenDecl("type", <<TypeSpec("E", <<>>, StructType(<<>>))>>),
     GenDecl("type", <<TypeSpec("M", <<>>, StructType(<<Embedded>>))>>),
     GenDecl("type", <<TypeSpec("S", <<>>, StructType(<<OneName>>))>>),
     GenDecl("type", <<TypeSpec("P", <<<<"T">>, <<"U", "V">>>>,
                                StructType(<<Embedded, TwoNames>>))>>),
     GenDecl("type", <<TypeSpec("Z", <<>>, StructType(<<>>)),
                       TypeSpec("Q", <<>>, StructType(<<TwoNames, OneName>>))>>)}

\* The files packages.Load may list in GoFiles.
FileNames == {"x.go", "x_gen.go", "x_accessor_gen.go"}

\* Which of the template, the formatter and the write succeed.
Collaborators == [tmpl : BOOLEAN, format : BOOLEAN, write : BOOLEAN]

(***************************************************************************)
(* The file specification: processNonRecursively loads the directory       *)
(* FieldDir and processFile is run on one file of it.                      *)
(***************************************************************************)
InitFile ==
    /\ InitCache
    /\ call = Idle
    /\ OptionsAtRest
    /\ field = NoField
    /\ callers = CallersAtRest
    /\ run = NoRun
    /\ \E decls \in SeqsUpTo(Decls, MaxDecls) : \E name \in FileNames :
       \E o \in Outcomes : \E mode \in {ModeGetter, ModeAccessor} :
         unit = [NoUnit EXCEPT !.state = "pending",
                               !.filePath = FieldDir \o "/" \o name,
                               !.node = File("main", decls),
                               !.mode = mode, !.answer = o]

\* processNonRecursively up to its loop: the directory of the file is
\* loaded; an error is returned to the caller.
LoadFileDirectory ==
    /\ unit.state = "pending"
    /\ LET r == loadPackages(filepathDir(unit.filePath), State, unit.answer) IN
       /\ SetState(r.st)
       /\ unit' = IF r.err
                  THEN [unit EXCEPT !.state = "failed", !.err = "error loading packages"]
                  ELSE [unit EXCEPT !.state = "loaded"]
    /\ UNCHANGED <<call, optVars, field, callers, run>>

\* processFile on the file, the collaborators succeeding or failing.
ProcessFile ==
    /\ unit.state = "loaded"
    /\ \E ok \in Collaborators :
         LET r == processFile(unit.node, unit.filePath, unit.mode, unit.files,
                              State, unit.answer, ok) IN
         /\ SetState(r.st)
         /\ unit' = [unit EXCEPT !.state = "processed", !.err = r.err,
                                 !.data = r.data, !.tmplRuns = r.tmplRuns,
                                 !.formatRuns = r.formatRuns, !.files = r.files]
    /\ UNCHANGED <<call, optVars, field, callers, run>>

NextFile == LoadFileDirectory \/ ProcessFile

SpecFile == InitFile /\ [][NextFile]_vars

(***************************************************************************)
(* Claims about the artifact of a file (specification SpecFile).           *)
(***************************************************************************)
\* The field names the entries of a field list bind.
RECURSIVE NamesBound(_)
NamesBound(list) ==
    IF Len(list) = 0 THEN 0 ELSE Len(Head(list).Names) + NamesBound(Tail(list))

\* The type specs of a declaration.
TypeSpecsOf(decl) ==
    IF decl.kind = "GenDecl" /\ decl.Tok = "type" THEN decl.Specs ELSE <<>>

\* The struct declarations of a file, as (declaration, spec) positions.
StructPositions(node) ==
    {p \in UNION {{<<d, i>> : i \in 1..Len(TypeSpecsOf(node.Decls[d]))} :
                     d \in 1..Len(node.Decls)} :
        node.Decls[p[1]].Specs[p[2]].Type.kind = "StructType"}

NamesAt(node, p) == NamesBound(node.Decls[p[1]].Specs[p[2]].Type.Fields)

\* The unit has no field name at all.
NoFieldName(node) == \A p \in StructPositions(node) : NamesAt(node, p) = 0

\* processFile has run on a file it does not ignore.
Processed == unit.state = "processed" /\ ~ignoreFile(filepathBase(unit.filePath))

\* C5: an artifact is collected only when the unit binds at least one
\* field name; for a unit that binds none processFile runs no template and
\* no formatting, writes no file and returns no error, so no artifact without
\* fields reaches the template.
C5_NoEmptyArtifact ==
    Processed =>
        /\ unit.data.isNil <=> NoFieldName(unit.node)
        /\ NoFieldName(unit.node) =>
             /\ unit.tmplRuns = 0 /\ unit.formatRuns = 0
             /\ unit.files = <<>> /\ unit.err = ""
        /\ unit.tmplRuns > 0 =>
             \E i \in 1..Len(unit.data.Structs) : Len(unit.data.Structs[i].Fields) >= 1

\* A unit of structs that bind no name has been processed.
C5_Witness ==
    /\ Processed
    /\ StructPositions(unit.node) # {}
    /\ NoFieldName(unit.node)
    /\ unit.data.isNil /\ unit.tmplRuns = 0

\* C6: a struct declaration that binds no field name contributes no
\* RecordDescriptor to a produced artifact: every StructInfo of the artifact
\* has at least one field, and there are as many as structs that bind a name.
C6_NoFieldlessRecord ==
    Processed /\ ~unit.data.isNil =>
        /\ \A i \in 1..Len(unit.data.Structs) : Len(unit.data.Structs[i].Fields) >= 1
        /\ Len(unit.data.Structs)
             = Cardinality({p \in StructPositions(unit.node) : NamesAt(unit.node, p) >= 1})

(***************************************************************************)
(* Claims about absent type information (specification SpecField).         *)
(***************************************************************************)
\* The packages cached for the directory of the field.
FieldPackages == packageCache[field.dirPath].packages

\* The directory of the field is loaded and no package of it has a type
\* for expr.
NoInformation(expr) ==
    /\ field.dirPath \in DOMAIN packageCache
    /\ \A i \in 1..Len(FieldPackages) : TypeOf(FieldPackages[i], expr) = NilType

\* The shapes neither synthesizer has a case for.
Unsupported(expr) == expr.kind \notin {"StarExpr", "ArrayType", "MapType", "Ident"}

\* C11: for a named identifier the lookup has no information for, and for
\* an expression of unsupported shape, A and B are both the rendered type
\* followed by {}; nothing aborts and no value is empty.
C11_AbsentLookupGivesEmptyLiteral ==
    /\ field.state = "done"
    /\ \/ Unsupported(field.expr)
       \/ /\ field.expr.kind = "Ident" /\ ~InNameSwitch(field.expr.Name)
          /\ NoInformation(field.expr)
    => /\ ~panicked
       /\ field.NonZeroValue = exprToString(field.expr) \o "{}"
       /\ field.NonZeroValue2 = field.NonZeroValue

\* The load of the directory of the field was run and failed, so that
\* nothing is cached for it.
LoadFailed ==
    field.dirPath \notin DOMAIN packageCache /\ failures[field.dirPath] > 0

\* C12: isPrimitivePointer on a pointer whose pointee has no type
\* information, because no loaded package resolves it or because loading
\* the directory failed, answers false and does not crash.
C12_NoInformationIsNotPrimitive ==
    /\ field.state \in {"done", "classified"} /\ field.expr.kind = "StarExpr"
    /\ LoadFailed \/ NoInformation(field.expr.X)
    => ~panicked /\ ~field.PrimitivePointer

(***************************************************************************)
(* Claims about the classification (specification SpecField).              *)
(***************************************************************************)
\* The packages of the directory that have a type for expr, by position.
Resolving(expr) ==
    {i \in 1..Len(FieldPackages) : TypeOf(FieldPackages[i], expr) # NilType}

\* The type of expr in the first package that has one.
FirstResolution(expr) ==
    TypeOf(FieldPackages[CHOOSE i \in Resolving(expr) :
                            \A j \in Resolving(expr) : i <= j], expr)

\* A pointer field has been classified with its directory loaded.
Classified ==
    /\ field.state \in {"done", "classified"} /\ ~panicked
    /\ field.expr.kind = "StarExpr"
    /\ field.dirPath \in DOMAIN packageCache

\* C13 as stated: the first package that has a type for the pointee decides.
C13_Original ==
    Classified /\ Resolving(field.expr.X) # {} =>
        (field.PrimitivePointer <=> IsBasic(FirstResolution(field.expr.X)))

\* C13: a pointer field is a primitive pointer exactly when some loaded
\* package gives its pointee a type with a basic underlying type; packages
\* without a type for it, or with another type, are passed over.
C13_AnyPackageDecides ==
    Classified =>
        (field.PrimitivePointer <=>
            \E i \in Resolving(field.expr.X) :
                IsBasic(TypeOf(FieldPackages[i], field.expr.X)))

\* The packages disagree: the first type of the pointee is not basic, a
\* later one is, and the field is a primitive pointer.
C13_Witness ==
    /\ Classified /\ Resolving(field.expr.X) # {}
    /\ ~IsBasic(FirstResolution(field.expr.X))
    /\ \E i \in Resolving(field.expr.X) :
         IsBasic(TypeOf(FieldPackages[i], field.expr.X))
    /\ field.PrimitivePointer

\* Some loaded package gives expr a type with a basic underlying type.
ResolvesToBasic(expr) ==
    \E i \in Resolving(expr) : IsBasic(TypeOf(FieldPackages[i], expr))

\* C14: a field whose type is a pointer and whose pointee resolves to a
\* basic underlying type has PrimitivePointer true and DeferrencedFieldType
\* the rendered pointee; every other field has PrimitivePointer false and an
\* empty DeferrencedFieldType; classifying a type that is not a pointer
\* answers false and leaves the cache and the count of analyses as they were.
C14_FieldClassification ==
    /\ Resolved =>
         IF field.expr.kind = "StarExpr" /\ ResolvesToBasic(field.expr.X)
         THEN /\ field.PrimitivePointer
              /\ field.DeferrencedFieldType = exprToString(field.expr.X)
         ELSE ~field.PrimitivePointer /\ field.DeferrencedFieldType = ""
    /\ field.state = "classified" /\ field.expr.kind # "StarExpr" =>
         /\ ~field.PrimitivePointer
         /\ State = field.before

\* A pointer to a named type over a scalar has been resolved as primitive.
C14_Witness ==
    /\ Resolved /\ field.expr.kind = "StarExpr"
    /\ field.expr.X.kind = "Ident" /\ ~InNameSwitch(field.expr.X.Name)
    /\ field.PrimitivePointer
    /\ field.DeferrencedFieldType = field.expr.X.Name

(***************************************************************************)
(* Claims about the descriptors of a file (specification SpecFile).        *)
(***************************************************************************)
\* Position p comes before position q in the file, or is q.
NotAfter(p, q) == p[1] < q[1] \/ (p[1] = q[1] /\ p[2] <= q[2])

\* The place of the struct at position p among the structs of the file.
Rank(node, p) == Cardinality({q \in StructPositions(node) : NotAfter(q, p)})

SpecAt(node, p) == node.Decls[p[1]].Specs[p[2]]

\* The names bound by the first k entries of a field list.
NamesBefore(list, k) == NamesBound(SubSeq(list, 1, k))

\* The fields of descriptor d are the names of the entries of list, entry
\* after entry and name after name, the names of one entry sharing the
\* rendered type and whatever else was computed for the first of them.
FieldsFollow(d, list) ==
    /\ Len(d.Fields) = NamesBound(list)
    /\ \A k \in 1..Len(list) : \A j \in 1..Len(list[k].Names) :
         /\ d.Fields[NamesBefore(list, k - 1) + j].Name = list[k].Names[j]
         /\ d.Fields[NamesBefore(list, k - 1) + j].Type = exprToString(list[k].Type)
         /\ [d.Fields[NamesBefore(list, k - 1) + j] EXCEPT !.Name = ""]
              = [d.Fields[NamesBefore(list, k - 1) + 1] EXCEPT !.Name = ""]

\* C15: the artifact has one descriptor per struct declaration, in
\* declaration order, and nothing for other declarations; each descriptor
\* has one field per declared name, in declaration order, the names of one
\* entry sharing type, classification and example values.
C15_DescriptorsFollowDeclarations ==
    Processed /\ ~unit.data.isNil =>
        /\ Len(unit.data.Structs) = Cardinality(StructPositions(unit.node))
        /\ \A p \in StructPositions(unit.node) :
             /\ unit.data.Structs[Rank(unit.node, p)].StructName
                  = SpecAt(unit.node, p).Name
             /\ FieldsFollow(unit.data.Structs[Rank(unit.node, p)],
                             SpecAt(unit.node, p).Type.Fields)

\* An artifact of two structs, one of them with three fields from two
\* entries, of a file that also has a declaration that is not a struct.
C15_Witness ==
    /\ Processed /\ ~unit.data.isNil
    /\ Len(unit.data.Structs) >= 2
    /\ \E p \in StructPositions(unit.node) :
         /\ SpecAt(unit.node, p).Type.Fields = <<TwoNames, OneName>>
         /\ Len(unit.data.Structs[Rank(unit.node, p)].Fields) = 3
    /\ \E d \in 1..Len(unit.node.Decls) :
         \A p \in StructPositions(unit.node) : p[1] # d

(***************************************************************************)
(* main.go: a run of process over a directory tree.  The disk maps the     *)
(* path of a file to its content: a source file (its parsed node) or the   *)
(* bytes a run wrote.                                                      *)
(***************************************************************************)
RunRoot == "/a"

\* The directories os.ReadDir lists in dir, in its (sorted) order.
SubDirs(dir) == IF dir = RunRoot THEN <<"/a/b", "/a/c">> ELSE <<>>

RunDirs == {RunRoot, "/a/b", "/a/c"}

\* The file names of a directory, in the sorted order of pkg.GoFiles.
BaseNames == <<"x.go", "x_accessor_gen.go", "x_gen.go">>

WithFields == File("main", <<GenDecl("type", <<TypeSpec("S", <<>>, StructType(<<OneName>>))>>)>>)
WithoutFields == File("main", <<GenDecl("type", <<TypeSpec("E", <<>>, StructType(<<>>))>>)>>)

Source(node) == [kind |-> "source", node |-> node]

\* What a directory may hold before the first run.
Listings ==
    {<<>>,
     "x.go" :> Source(WithFields),
     "x.go" :> Source(WithoutFields),
     "x_gen.go" :> Source(WithFields),
     ("x.go" :> Source(WithFields)) @@ ("x_gen.go" :> Source(WithFields)),
     ("x.go" :> Source(WithoutFields)) @@ ("x_accessor_gen.go" :> Source(WithFields))}

DiskOf(listing) ==
    [p \in UNION {{d \o "/" \o b : b \in DOMAIN listing[d]} : d \in RunDirs} |->
        listing[filepathDir(p)][filepathBase(p)]]

\* The node the parser gives for a file of the disk; a generated file
\* holds methods only.
NodeOf(content) ==
    IF "node" \in DOMAIN content THEN content.node
    ELSE File(content.rendered.PackageName, <<FuncDecl("GetA")>>)

\* pkg.GoFiles of the package loaded from dir.
GoFiles(disk, dir) ==
    SelectSeq([i \in 1..Len(BaseNames) |-> dir \o "/" \o BaseNames[i]],
              LAMBDA p : p \in DOMAIN disk)

\* What packages.Load answers for a directory of the tree.
RunOutcomes == {LoadError, Loaded(<<PkgMain>>)}

\* The run ends with an error, returned up to the caller of process.
failRun(rn, err) == [rn EXCEPT !.phase = "failed", !.err = err, !.errors = @ + 1]

\* processNonRecursively after its loadPackages call answered r.  A failed
\* load that is passed over instead of returned.
afterLoadPassOver(rn, r) ==
    IF r.err
    THEN [rn EXCEPT !.phase = "files", !.todo = <<>>, !.errors = @ + 1,
                    !.loaded = Append(@, rn.dir)]
    ELSE [rn EXCEPT !.phase = "files", !.todo = GoFiles(rn.disk, rn.dir),
                    !.loaded = Append(@, rn.dir)]

\* processNonRecursively after its loadPackages call answered r.
afterLoad(rn, r) ==
    IF r.err
    THEN [failRun(rn, "error loading packages") EXCEPT !.loaded = Append(@, rn.dir)]
    ELSE [rn EXCEPT !.phase = "files", !.todo = GoFiles(rn.disk, rn.dir),
                    !.loaded = Append(@, rn.dir)]

\* The write of processFile succeeded.
Wrote(f) == f.err = "" /\ f.formatRuns = 1

\* The log of the run after processFile gave f for the first file of todo.
logged(rn, f) ==
    [rn EXCEPT !.processed = Append(@, [path |-> Head(rn.todo), tmplRuns |-> f.tmplRuns,
                                        wrote |-> Wrote(f)]),
               !.written = IF Wrote(f)
                           THEN Append(@, [in |-> Head(rn.todo),
                                           out |-> outputFilePath(Head(rn.todo))])
                           ELSE @,
               !.created = @ \cup (DOMAIN f.files \ DOMAIN rn.disk),
               !.disk = f.files]

\* One iteration of the loop over pkg.GoFiles once processFile gave f.
afterFile(rn, f) ==
    IF f.err # "" THEN failRun(logged(rn, f), "error processing file")
    ELSE [logged(rn, f) EXCEPT !.todo = Tail(@)]

\* The directories left once the directory at the head of the worklist is
\* done: its subdirectories come first (processRecursively recurses).
afterReadDir(rn, ok) ==
    IF ~ok THEN failRun(rn, "error reading directory")
    ELSE [rn EXCEPT !.worklist = SubDirs(rn.dir) \o Tail(@),
                    !.phase = IF SubDirs(rn.dir) \o Tail(rn.worklist) = <<>>
                              THEN "returned" ELSE "start"]

\* A new process: nothing cached.
FreshState ==
    [cache |-> <<>>, analyses |-> [p \in Paths \cup RunDirs |-> 0],
     failures |-> [p \in Paths \cup RunDirs |-> 0], nextId |-> 1, panicked |-> FALSE]

\* process(o) is called on the disk.
startRun(n, recursive, mode, disk, earlier) ==
    [NoRun EXCEPT !.n = n, !.phase = "start", !.recursive = recursive, !.mode = mode,
                  !.worklist = <<RunRoot>>, !.disk = disk, !.earlier = earlier]

InitRun ==
    /\ packageCache = FreshState.cache
    /\ analyses = FreshState.analyses
    /\ failures = FreshState.failures
    /\ nextId = FreshState.nextId
    /\ panicked = FreshState.panicked
    /\ call = Idle
    /\ OptionsAtRest
    /\ field = NoField
    /\ callers = CallersAtRest
    /\ unit = NoUnit
    /\ \E listing \in [RunDirs -> Listings] : \E recursive \in BOOLEAN :
         run = startRun(1, recursive, ModeAccessor, DiskOf(listing), <<>>)

\* processNonRecursively is entered for the directory at the head of the
\* worklist and loads it.
LoadRunDirectory ==
    /\ run.phase = "start"
    /\ \E o \in RunOutcomes :
         LET r == loadPackages(Head(run.worklist), State, o) IN
         /\ SetState(r.st)
         /\ run' = afterLoad([run EXCEPT !.dir = Head(run.worklist)], r)
    /\ UNCHANGED <<call, optVars, field, callers, unit>>

\* The loop over pkg.GoFiles: processFile on the next file.
ProcessRunFile ==
    /\ run.phase = "files" /\ run.todo # <<>>
    /\ \E ok \in Collaborators :
         LET f == processFile(NodeOf(run.disk[Head(run.todo)]), Head(run.todo),
                              run.mode, run.disk, State, LoadError, ok) IN
         /\ SetState(f.st)
         /\ run' = afterFile(run, f)
    /\ UNCHANGED <<call, optVars, field, callers, unit>>

\* process without Recursive: processNonRecursively returns nil.
ReturnNonRecursive ==
    /\ run.phase = "files" /\ run.todo = <<>> /\ ~run.recursive
    /\ run' = [run EXCEPT !.phase = "returned"]
    /\ UNCHANGED <<cacheVars, call, optVars, field, callers, unit>>

\* processRecursively: os.ReadDir of the directory, then its subdirectories.
ReadDir ==
    /\ run.phase = "files" /\ run.todo = <<>> /\ run.recursive
    /\ \E ok \in BOOLEAN : run' = afterReadDir(run, ok)
    /\ UNCHANGED <<cacheVars, call, optVars, field, callers, unit>>

\* The tool is run again, in a new process, over what the disk holds now.
RunAgain ==
    /\ run.phase \in {"returned", "failed"} /\ run.n < MaxRuns
    /\ SetState(FreshState)
    /\ run' = startRun(run.n + 1, run.recursive, run.mode, run.disk,
                       Append(run.earlier, [err |-> run.err, created |-> run.created]))
    /\ UNCHANGED <<call, optVars, field, callers, unit>>

NextRun ==
    LoadRunDirectory \/ ProcessRunFile \/ ReturnNonRecursive \/ ReadDir \/ RunAgain

SpecRun == InitRun /\ [][NextRun]_vars

(***************************************************************************)
(* Claims about runs (specification SpecRun).                              *)
(***************************************************************************)
AccessorSuffix == "_accessor_gen.go"

\* A name that is never an input: a generated file, a test, not a Go file.
Excluded(path) ==
    \/ HasSuffix(path, AccessorSuffix)
    \/ HasSuffix(path, "_test.go")
    \/ ~HasSuffix(path, ".go")

\* out is the sibling X_accessor_gen.go of the input X.go or X_gen.go.
SiblingOutput(in, out) ==
    /\ HasSuffix(out, AccessorSuffix)
    /\ filepathDir(out) = filepathDir(in)
    /\ \/ in = TrimSuffix(out, AccessorSuffix) \o "_gen.go"
       \/ in = TrimSuffix(out, AccessorSuffix) \o ".go" /\ ~HasSuffix(in, "_gen.go")

Distinct(seq) == \A i, j \in 1..Len(seq) : seq[i] = seq[j] => i = j

\* The error the run returned is the one of the last thing it attempted.
FailedAtLast ==
    /\ run.err = "error loading packages" =>
         /\ run.loaded[Len(run.loaded)] = run.dir
         /\ run.dir \notin DOMAIN packageCache
         /\ \A i \in 1..Len(run.processed) : filepathDir(run.processed[i].path) # run.dir
    /\ run.err = "error processing file" =>
         /\ run.processed[Len(run.processed)].path = Head(run.todo)
         /\ ~run.processed[Len(run.processed)].wrote
    /\ run.err = "error reading directory" => run.todo = <<>>

\* A run meets at most one error, which ends it and is what it returns;
\* nothing is loaded or processed twice.
FirstErrorEnds ==
    /\ run.errors <= 1
    /\ run.errors = 1 <=> run.phase = "failed"
    /\ run.phase = "failed" <=> run.err # ""
    /\ run.phase = "failed" => FailedAtLast
    /\ Distinct(run.loaded)
    /\ Distinct([i \in 1..Len(run.processed) |-> run.processed[i].path])

\* C17: the first load or file-processing error of a run ends it: the run
\* returns that error, after it no directory is loaded and no file processed
\* or written in that run, and nothing is attempted twice.
C17_FirstErrorEndsRun ==
    /\ []FirstErrorEnds
    /\ [][run.phase = "failed" /\ run'.n = run.n => run' = run]_vars

\* A run over the tree has written a file in the root and failed in the
\* first subdirectory, the second one not loaded.
C17_Witness ==
    /\ run.phase = "failed" /\ run.recursive
    /\ run.written # <<>>
    /\ run.loaded = <<RunRoot, SubDirs(RunRoot)[1]>>

(***************************************************************************)
(* Claims about the order of the options (specification SpecOptions).      *)
(***************************************************************************)
\* The mode a toggle leaves, by the table of the toggles.
TableMode(t, m) ==
    CASE t = "EnableGetters" -> IF m = "setter" THEN "accessor" ELSE "getter"
      [] t = "EnableSetters" -> IF m = "getter" THEN "accessor" ELSE "setter"
      [] t = "DisableGetters" -> IF m = "accessor" THEN "setter" ELSE ""
      [] t = "DisableSetters" -> IF m = "accessor" THEN "getter" ELSE ""

\* The mode after the options of list, applied first to last to mode m.
RECURSIVE ModeAfter(_, _)
ModeAfter(list, m) ==
    IF list = <<>> THEN m
    ELSE ModeAfter(Tail(list),
                   IF Head(list).f \in Toggles THEN TableMode(Head(list).f, m)
                   ELSE IF Head(list).f = "Mode" THEN Head(list).arg ELSE m)

Toggle(t) == [f |-> t, arg |-> ""]

\* C18: the options are applied in list order to the base mode accessor,
\* and the toggles do not commute: from accessor, EnableGetters then
\* DisableGetters leaves unknown and DisableGetters then EnableGetters leaves
\* accessor.
C18_TogglesDoNotCommute ==
    /\ options.Mode = ModeAfter(last.applied, ModeAccessor)
    /\ last.applied = <<Toggle("EnableGetters"), Toggle("DisableGetters")>> =>
         options.Mode = ModeUnknown
    /\ last.applied = <<Toggle("DisableGetters"), Toggle("EnableGetters")>> =>
         options.Mode = ModeAccessor

\* New has returned for the list DisableGetters, EnableGetters.
C18_Witness ==
    /\ fs = <<>>
    /\ last.applied = <<Toggle("DisableGetters"), Toggle("EnableGetters")>>
    /\ options.Mode = ModeAccessor

(***************************************************************************)
(* Claims about the rendered type (specification SpecField).               *)
(***************************************************************************)
\* The shapes exprToString has a case for.
Rendered(expr) ==
    expr.kind \in {"Ident", "StarExpr", "SelectorExpr", "ArrayType", "MapType",
                   "IndexExpr", "IndexListExpr"}

\* The text the parts of expr compose to, by the shape of expr.
Composed(expr) ==
    CASE expr.kind = "Ident" -> expr.Name
      [] expr.kind = "StarExpr" -> "*" \o exprToString(expr.X)
      [] expr.kind = "ArrayType" -> "[]" \o exprToString(expr.Elt)
      [] expr.kind = "MapType" ->
            "map[" \o exprToString(expr.Key) \o "]" \o exprToString(expr.Value)
      [] expr.kind = "SelectorExpr" -> exprToString(expr.X) \o "." \o expr.Sel
      [] expr.kind = "IndexExpr" ->
            exprToString(expr.X) \o "[" \o exprToString(expr.Index) \o "]"
      [] expr.kind = "IndexListExpr" ->
            exprToString(expr.X) \o "["
                \o Join([i \in 1..Len(expr.Indices) |-> exprToString(expr.Indices[i])], ", ")
                \o "]"

\* The expressions directly under expr.
Parts(expr) ==
    CASE expr.kind \in {"StarExpr", "SelectorExpr"} -> {expr.X}
      [] expr.kind = "ArrayType" -> {expr.Elt}
      [] expr.kind = "MapType" -> {expr.Key, expr.Value}
      [] expr.kind = "IndexExpr" -> {expr.X, expr.Index}
      [] expr.kind = "IndexListExpr" ->
            {expr.X} \cup {expr.Indices[i] : i \in 1..Len(expr.Indices)}
      [] OTHER -> {}

\* C19: the rendered type of every field is composed from the renderings
\* of its parts by its shape (name, * pointee, [] element, map[key]value,
\* owner.name, base[args]); a shape without a case renders as the empty
\* string where it stands, so a pointer to one renders as * alone.
C19_RenderingIsCompositional ==
    field.state = "done" =>
        /\ Rendered(field.expr) => field.Type = Composed(field.expr)
        /\ ~Rendered(field.expr) => field.Type = ""
        /\ \A part \in Parts(field.expr) : ~Rendered(part) => exprToString(part) = ""
        /\ field.expr.kind = "StarExpr" /\ ~Rendered(field.expr.X) => field.Type = "*"

\* A pointer to a function type has been rendered as * alone.
C19_Witness ==
    /\ field.state = "done"
    /\ field.expr = StarExpr(OtherExpr("FuncType"))
    /\ field.Type = "*"

(***************************************************************************)
(* Claims about the output paths of one run (specification SpecRun).       *)
(***************************************************************************)
\* C20: within one run, two different input files that both had an artifact
\* written are written to two different output paths, so no output of one
\* input is overwritten by the output of another input of the same run.
C20_DistinctOutputs ==
    \A i, j \in 1..Len(run.written) :
        run.written[i].out = run.written[j].out => run.written[i].in = run.written[j].in

(***************************************************************************)
(* Claims about failed analyses (specification Spec).                      *)
(***************************************************************************)
\* The last loadPackages call for p failed: p was analysed without success
\* and has no entry (an entry, once stored, stays).
FailedBefore(p) == failures[p] >= 1 /\ p \notin DOMAIN packageCache

\* A loadPackages call for p is made in this step.
Calls(p) == call = Idle /\ call'.op = "loadPackages" /\ call'.dirPath = p

\* C21: a loadPackages call whose analysis failed returned an error and the
\* nil resolution and left packageCache as it was before the call, with no
\* entry for its path; and the next loadPackages call for a path whose last
\* call failed runs the analysis again and returns what that run gives, an
\* error only if that run fails too.
C21_FailureIsNotCached ==
    /\ [](call.op = "loadPackages" /\ call.err =>
            /\ call.resp = NilResp
            /\ packageCache = call.before
            /\ call.dirPath \notin DOMAIN packageCache)
    /\ [][\A p \in Paths : FailedBefore(p) /\ Calls(p) =>
            /\ analyses'[p] = analyses[p] + 1
            /\ call'.err <=> failures'[p] = failures[p] + 1
            /\ ~call'.err => p \in DOMAIN packageCache' /\ call'.resp = packageCache'[p]
            /\ \A q \in DOMAIN packageCache :
                 q \in DOMAIN packageCache' /\ packageCache'[q] = packageCache[q]]_vars

\* C21 witness: a call for a path failed for the second time while the other
\* path was stored, and the stored entry is still there.
C21_Witness ==
    /\ call.op = "loadPackages"
    /\ call.err
    /\ failures[call.dirPath] >= 2
    /\ DOMAIN call.before # {}
    /\ packageCache = call.before

====
